---- MODULE Spec2Model ----
(***************************************************************************)
(* A model of playlist_audio_feature_rankings.py: the paginated collection *)
(* of playlists and tracks, the batched audio-feature lookup, the          *)
(* averaging and the ranked report, as the script's main() runs them.      *)
(*                                                                         *)
(* Python values are represented as follows.                               *)
(*   None (a track id, a page cursor)  the number 0                        *)
(*   a dict                            a sequence of [key, val] records in *)
(*                                     insertion order, keys distinct      *)
(*   a float                           an exact decimal: a raw descriptor  *)
(*                                     is an integer count of 10^-RawDigits*)
(*                                     and an averaged one an integer count*)
(*                                     of 10^-Digits (binary rounding error*)
(*                                     of floats is outside the model)     *)
(*   an exception                      a record [type, call]               *)
(***************************************************************************)
EXTENDS Integers, Sequences, FiniteSets, TLC

\* ------------------------------------------------------------------ bounds

\* The most pages one listing is spread over.
MaxPages == 3
\* The most items on one small page.
MaxPageLen == 2
\* How many display names playlists draw from (collisions need few names).
NumNames == 3
\* The most playlists get_playlists, entered alone, is answered in all.
MaxListed == 3
\* The whole run: the most playlists listed, the most pages of one listing,
\* and how many display names the playlists draw from.
MaxRunPlaylists == 2
MaxRunPages == 2
NumRunNames == 2
\* The longest track list handed to get_audio_features on its own.
MaxTracks == 250
\* The longest feature list handed to average_audio_features on its own.
MaxVecs == 3
\* Feature vectors are VecOf(0) .. VecOf(MaxSeed).
MaxSeed == 4
\* The most playlists handed to print_rankings on its own.
MaxRankPlaylists == 3
\* The largest top_amount handed to print_rankings on its own.
MaxTop == 4
\* print_rankings on its own ranks the averages of VecOf(0) .. VecOf(MaxRankSeed).
MaxRankSeed == 2
\* Decimal digits of a raw descriptor value.
RawDigits == 3

\* --------------------------------------------------------------- constants

\* The per-call maximum of sp.audio_features (lines 64, 66, 67).
BatchSize == 100
\* round(..., 2) at line 96.
Digits == 2
\* print_rankings' default top_amount (line 100).
DefaultTopAmount == 10

\* ----------------------------------------------------------------- helpers

Min(a, b) == IF a <= b THEN a ELSE b
Max(a, b) == IF a >= b THEN a ELSE b
Abs(a) == IF a >= 0 THEN a ELSE -a

RECURSIVE Pow10(_)
Pow10(n) == IF n <= 0 THEN 1 ELSE 10 * Pow10(n - 1)

RECURSIVE Flatten(_)
\* The concatenation of a sequence of sequences.
Flatten(ss) == IF ss = <<>> THEN <<>> ELSE Head(ss) \o Flatten(Tail(ss))

Reverse(s) == [i \in 1..Len(s) |-> s[Len(s) + 1 - i]]

SeqsUpTo(S, n) == UNION {[1..k -> S] : k \in 0..n}

\* Python's s[a:b] for 0 <= a, 0 <= b (0-based, b exclusive).
PySlice(s, a, b) == SubSeq(s, a + 1, Min(b, Len(s)))

\* Python's s[:n]: for a negative n, all but the last -n elements.
PySliceTo(s, n) == IF n >= 0 THEN SubSeq(s, 1, Min(n, Len(s)))
                   ELSE SubSeq(s, 1, Max(0, Len(s) + n))

\* ------------------------------------------------------------------- dicts

DictKeys(d) == [i \in 1..Len(d) |-> d[i].key]
DictHas(d, k) == \E i \in 1..Len(d) : d[i].key = k
DictGet(d, k) == d[CHOOSE i \in 1..Len(d) : d[i].key = k].val
\* d[k] = v: an existing key keeps its position and takes the new value.
DictSet(d, k, v) ==
    IF DictHas(d, k)
    THEN [i \in 1..Len(d) |-> IF d[i].key = k THEN [key |-> k, val |-> v] ELSE d[i]]
    ELSE Append(d, [key |-> k, val |-> v])

\* -------------------------------------------------------------- exceptions

NoError == [type |-> "none", call |-> 0]
\* The exception the n-th external call raised.
ApiError(n) == [type |-> "SpotifyException", call |-> n]
CodeError(t) == [type |-> t, call |-> 0]

\* ------------------------------------------------------------- descriptors

\* The keys of cumulative_audio_features, in the dict's order.
Categories ==
    << "danceability", "energy", "loudness", "speechiness", "acousticness",
       "instrumentalness", "liveness", "valence", "tempo" >>
CategorySet == {Categories[k] : k \in 1..Len(Categories)}
CategoryIndex(c) == CHOOSE k \in 1..Len(Categories) : Categories[k] = c

\* constants.audio_feature_names: the descriptors print_rankings walks.
audio_feature_names == Categories

\* ---------------------------------------------------------- feature records

\* One entry of sp.audio_features' result: None (isNone), or a record of the
\* descriptors in DOMAIN fields.
NoneFeature == [isNone |-> TRUE, fields |-> [c \in {} |-> 0]]
Feature(f) == [isNone |-> FALSE, fields |-> f]

\* The k-th descriptor of the vector of seed s: loudness (k = 3) is negative,
\* danceability (k = 1) ends in 0 or 5, so that means fall on rounding ties.
RawValue(s, k) == IF k = 3 THEN -(7 * s + 2) ELSE (k + 4) * s + (k - 1)
\* The service's records carry more than the nine descriptors.
OtherFields == {"duration_ms", "key"}
VecOf(s) ==
    Feature([c \in CategorySet \cup OtherFields |->
                IF c \in CategorySet THEN RawValue(s, CategoryIndex(c)) ELSE s])
\* A record with no "tempo".
LackingOf(s) ==
    Feature([c \in (CategorySet \ {"tempo"}) \cup OtherFields |->
                IF c \in CategorySet THEN RawValue(s, CategoryIndex(c)) ELSE s])

\* The service's catalogue: what sp.audio_features answers for track id t.
FeatureOf(t) ==
    IF t % 5 = 0 THEN NoneFeature
    ELSE IF t % 5 = 4 THEN LackingOf(t % (MaxSeed + 1))
    ELSE VecOf(t % (MaxSeed + 1))

\* ------------------------------------------------- average_audio_features

\* audio_feature[category] is evaluated: None raises TypeError, a missing
\* key KeyError.
BadFeature(af) == af.isNone \/ ~(CategorySet \subseteq DOMAIN af.fields)

RECURSIVE SumOver(_, _)
\* cumulative_audio_features[c] after the loop of lines 92-94: the sum of the
\* descriptor over the list (summed by halves, which keeps the evaluation of
\* a list of hundreds of entries shallow).
SumOver(afs, c) ==
    IF afs = <<>> THEN 0
    ELSE IF Len(afs) = 1 THEN afs[1].fields[c]
    ELSE LET h == Len(afs) \div 2
         IN  SumOver(SubSeq(afs, 1, h), c) + SumOver(SubSeq(afs, h + 1, Len(afs)), c)

RoundDown(num, den) == num \div den

\* num / den rounded to the nearest integer, a tie to the even one (den > 0).
RoundHalfEven(num, den) ==
    LET q == num \div den
        r == num % den
    IN  IF 2 * r > den THEN q + 1
        ELSE IF 2 * r < den THEN q
        ELSE IF q % 2 = 0 THEN q ELSE q + 1

\* round(total / num_tracks, 2), total in units of 10^-RawDigits, the result
\* in units of 10^-Digits.
Round2(total, num_tracks) ==
    RoundHalfEven(total, num_tracks * Pow10(RawDigits - Digits))

\* What average_audio_features does with its argument: the dict it returns,
\* or the exception it raises.
average_audio_features(afs) ==
    LET num_tracks == Len(afs)
        bad == {i \in 1..Len(afs) : BadFeature(afs[i])}
    IN  IF bad # {}
        THEN LET i == CHOOSE j \in bad : \A l \in bad : j <= l
             IN  [raised |-> TRUE,
                  error |-> CodeError(IF afs[i].isNone THEN "TypeError"
                                      ELSE "KeyError"),
                  value |-> [c \in CategorySet |-> 0]]
        ELSE IF num_tracks = 0
        THEN [raised |-> TRUE, error |-> CodeError("ZeroDivisionError"),
              value |-> [c \in CategorySet |-> 0]]
        ELSE [raised |-> FALSE, error |-> NoError,
              value |-> [c \in CategorySet |->
                            Round2(SumOver(afs, c), num_tracks)]]

\* ---------------------------------------------------------- print_rankings

RECURSIVE InsertStable(_, _, _)
\* x put into the ascending sequence s after every element not above it.
InsertStable(s, x, c) ==
    IF s = <<>> THEN <<x>>
    ELSE IF Head(s).val[c] <= x.val[c]
         THEN <<Head(s)>> \o InsertStable(Tail(s), x, c)
         ELSE <<x>> \o s

RECURSIVE SortAscending(_, _)
\* The stable ascending sort by descriptor c.
SortAscending(s, c) ==
    IF s = <<>> THEN <<>>
    ELSE InsertStable(SortAscending(SubSeq(s, 1, Len(s) - 1), c), s[Len(s)], c)

SortedUnstable(items, c) == Reverse(SortAscending(items, c))

\* sorted(items, key=lambda x: x[1][c], reverse=True): the list is reversed,
\* sorted ascending and stable, and reversed again.
Sorted(items, c) == Reverse(SortAscending(Reverse(items), c))

TopTenAll(sorted_playlists, top_amount) == sorted_playlists

\* top_ten = sorted_playlists[:top_amount]
TopTen(sorted_playlists, top_amount) == PySliceTo(sorted_playlists, top_amount)

\* What print_rankings prints: a block per descriptor, a line per playlist.
Rankings(playlists_audio_features, top_amount) ==
    [k \in 1..Len(audio_feature_names) |->
        [category |-> audio_feature_names[k],
         lines |-> LET top_ten == TopTen(Sorted(playlists_audio_features,
                                                audio_feature_names[k]),
                                         top_amount)
                   IN  [i \in 1..Len(top_ten) |->
                           [name |-> top_ten[i].key,
                            value |-> top_ten[i].val[audio_feature_names[k]]]]]]

\* ------------------------------------------------------------------- state

VARIABLES
    entry,          \* the function the process entered: "main", or one function
    pc,             \* the position of the process
    error,          \* the exception that ended the process (NoError: none)
    collab_only,    \* get_playlists' argument
    top_amount,     \* print_rankings' argument
    results,        \* the page last fetched (get_playlists, get_playlist_tracks)
    gp_playlists,   \* get_playlists' list "playlists"
    playlists,      \* the dict get_playlists returns (main's "playlists")
    idx,            \* main's position in "for playlist in playlists"
    tracks,         \* get_playlist_tracks' list, then main's "tracks"
    track_ids, start, num_tracks_left,   \* get_audio_features' locals
    audio_features, \* get_audio_features' list, then main's "audio_features"
    averaged,       \* the dict average_audio_features last returned
    playlist_audio_features,             \* main's dict of averages
    report,         \* what print_rankings printed
    printed,        \* how many times print_rankings ran
    last_call,      \* the external call issued last, and whether it returned
    failed_calls,   \* how many external calls raised
    served,         \* the pages the listing being drained has answered
    fetched,        \* the cursors the drain has requested, in order
    sent,           \* the id lists get_audio_features has sent, in order
    events          \* what the run did, in order: one entry per listing,
                    \* per playlist's feature lookup, per averaging, per report

vars == << entry, pc, error, collab_only, top_amount, results, gp_playlists,
           playlists, idx, tracks, track_ids, start, num_tracks_left,
           audio_features, averaged, playlist_audio_features, report, printed,
           last_call, failed_calls, served, fetched, sent, events >>

params == << entry, collab_only, top_amount >>
gpLocals == << gp_playlists >>
gafLocals == << track_ids, start, num_tracks_left, sent >>
mainLocals == << playlists, idx, playlist_audio_features >>
output == << report, printed >>
drain == << results, served, fetched >>

NoPage == [items |-> <<>>, next |-> 0]
NoCall == [op |-> "none", pl |-> 0, arg |-> 0, ok |-> TRUE]
Call(op, pl, arg, ok) == [op |-> op, pl |-> pl, arg |-> arg, ok |-> ok]
NoVector == [c \in CategorySet |-> 0]

\* An entry of events: open tells that the listing's last page named a next.
Event(op, pl, open) == [op |-> op, pl |-> pl, open |-> open]
\* The step's entry: a further step of the entry the run is at replaces it.
Note(evs, e) ==
    IF evs # <<>> /\ evs[Len(evs)].op = e.op /\ evs[Len(evs)].pl = e.pl
    THEN [evs EXCEPT ![Len(evs)] = e]
    ELSE Append(evs, e)

\* ------------------------------------------------------------- the service

NamePool == << "A", "B", "C", "D", "E", "F", "G", "H" >>
Names == {NamePool[i] : i \in 1..(IF entry = "main" THEN NumRunNames ELSE NumNames)}

\* The pages sp.current_user_playlists / sp.next may answer when `have`
\* playlists were listed before: ids are distinct, names and flags free.
PlaylistPages(have) ==
    LET lim == Min(MaxPageLen, (IF entry = "main" THEN MaxRunPlaylists
                                ELSE MaxListed) - have)
    IN  UNION {
          { [j \in 1..n |-> [id |-> have + j, name |-> f[j][1],
                             collaborative |-> f[j][2]]] :
              f \in [1..n -> Names \X BOOLEAN] } : n \in 0..lim }

TrackRef(t) == [track |-> [id |-> t]]
\* A page of BatchSize tracks that all have features.
FullPage == [i \in 1..BatchSize |-> TrackRef(1)]
\* The pages sp.playlist_items / sp.next may answer: an empty page, small
\* pages and a full one.  Track 0 has no id, track 5 no features, track 4
\* features without "tempo".
TrackPages ==
    { <<>>, <<TrackRef(1)>>, <<TrackRef(0), TrackRef(1)>>, <<TrackRef(5)>>,
      <<TrackRef(4)>>, FullPage }

\* The cursor a page answered for `cursor` may carry: 0 (None), or the next.
NextCursors(cursor) ==
    {0} \cup (IF cursor < (IF entry = "main" THEN MaxRunPages ELSE MaxPages)
              THEN {cursor + 1} ELSE {})
Responses(cursor, pages) ==
    {[items |-> p, next |-> n] : p \in pages, n \in NextCursors(cursor)}

\* ------------------------------------------------------------ propagation

RaiseAndGoOn(e) == pc' = "print_rankings" /\ error' = e

\* An exception no function catches ends main().
Raise(e) == pc' = "aborted" /\ error' = e

\* An external call that raises.
ApiFails(op, pl, arg) ==
    /\ last_call' = Call(op, pl, arg, FALSE)
    /\ failed_calls' = failed_calls + 1
    /\ events' = events
    /\ Raise(ApiError(Call(op, pl, arg, FALSE)))

\* ------------------------------------------------------------ get_playlists

HasNextNever(res) == FALSE

\* while results['next']:
HasNext(res) == res.next # 0

ExtendDropping(list, items) == items

\* list.extend(items)
Extend(list, items) == list \o items

KeepAll(item, only) == TRUE

\* if item['collaborative'] or not collab_only:
Keep(item, only) == item.collaborative \/ ~only

RECURSIVE BuildFirstWins(_, _, _)
BuildFirstWins(items, only, d) ==
    IF items = <<>> THEN d
    ELSE BuildFirstWins(Tail(items), only,
            IF Keep(Head(items), only) /\ ~DictHas(d, Head(items).name)
            THEN DictSet(d, Head(items).name, Head(items).id) ELSE d)

RECURSIVE BuildPlaylists(_, _, _)
\* The loop of lines 25-27 over items, from the dict d.
BuildPlaylists(items, only, d) ==
    IF items = <<>> THEN d
    ELSE BuildPlaylists(Tail(items), only,
            IF Keep(Head(items), only)
            THEN DictSet(d, Head(items).name, Head(items).id) ELSE d)

\* results = sp.current_user_playlists(); playlists = results['items']
GetPlaylistsFirst ==
    /\ pc = "get_playlists"
    /\ \/ /\ \E r \in Responses(1, PlaylistPages(0)) :
               /\ results' = r
               /\ gp_playlists' = r.items
               /\ served' = <<r>>
          /\ fetched' = <<1>>
          /\ last_call' = Call("current_user_playlists", 0, 1, TRUE)
          /\ events' = Note(events, Event("playlists", 0, results'.next # 0))
          /\ pc' = "gp_while"
          /\ UNCHANGED << error, failed_calls >>
       \/ /\ ApiFails("current_user_playlists", 0, 1)
          /\ UNCHANGED << drain, gpLocals >>
    /\ UNCHANGED << params, mainLocals, tracks, gafLocals, audio_features,
                    averaged, output >>

\* results = sp.next(results); playlists.extend(results['items'])
GetPlaylistsNext ==
    /\ pc = "gp_while"
    /\ HasNext(results)
    /\ \/ /\ \E r \in Responses(results.next, PlaylistPages(Len(gp_playlists))) :
               /\ results' = r
               /\ gp_playlists' = Extend(gp_playlists, r.items)
               /\ served' = Append(served, r)
          /\ fetched' = Append(fetched, results.next)
          /\ last_call' = Call("next_playlists", 0, results.next, TRUE)
          /\ events' = Note(events, Event("playlists", 0, results'.next # 0))
          /\ UNCHANGED << pc, error, failed_calls >>
       \/ /\ ApiFails("next_playlists", 0, results.next)
          /\ UNCHANGED << drain, gpLocals >>
    /\ UNCHANGED << params, mainLocals, tracks, gafLocals, audio_features,
                    averaged, output >>

\* The loop is left, resulting_playlists is built and returned; in main,
\* playlist_audio_features = {} and the for loop begins.  The callee's locals
\* are gone in main and kept for inspection when get_playlists was entered
\* alone.
GetPlaylistsBuild ==
    /\ pc = "gp_while"
    /\ ~HasNext(results)
    /\ playlists' = BuildPlaylists(gp_playlists, collab_only, <<>>)
    /\ idx' = 1
    /\ playlist_audio_features' = <<>>
    /\ IF entry = "main"
       THEN /\ pc' = "main_for"
            /\ results' = NoPage /\ served' = <<>> /\ fetched' = <<>>
            /\ gp_playlists' = <<>>
       ELSE /\ pc' = "returned"
            /\ UNCHANGED << drain, gpLocals >>
    /\ UNCHANGED << params, error, tracks, gafLocals, audio_features, averaged,
                    output, last_call, failed_calls, events >>

\* ------------------------------------------------------ get_playlist_tracks

\* main: for playlist in playlists: tracks = get_playlist_tracks(sp, id);
\* results = sp.playlist_items(playlist_id); tracks = results['items']
GetTracksFirst ==
    /\ pc = "main_for"
    /\ idx <= Len(playlists)
    /\ LET playlist_id == playlists[idx].val
       IN  \/ /\ \E r \in Responses(1, TrackPages) :
                    /\ results' = r
                    /\ tracks' = r.items
                    /\ served' = <<r>>
              /\ fetched' = <<1>>
              /\ last_call' = Call("playlist_items", playlist_id, 1, TRUE)
              /\ events' = Note(events, Event("tracks", playlist_id,
                                               results'.next # 0))
              /\ pc' = "gt_while"
              /\ UNCHANGED << error, failed_calls >>
           \/ /\ ApiFails("playlist_items", playlist_id, 1)
              /\ UNCHANGED << drain, tracks >>
    /\ UNCHANGED << params, mainLocals, gpLocals, gafLocals, audio_features,
                    averaged, output >>

\* results = sp.next(results); tracks.extend(results['items'])
GetTracksNext ==
    /\ pc = "gt_while"
    /\ HasNext(results)
    /\ LET playlist_id == playlists[idx].val
       IN  \/ /\ \E r \in Responses(results.next, TrackPages) :
                    /\ results' = r
                    /\ tracks' = Extend(tracks, r.items)
                    /\ served' = Append(served, r)
              /\ fetched' = Append(fetched, results.next)
              /\ last_call' = Call("next_tracks", playlist_id, results.next, TRUE)
              /\ events' = Note(events, Event("tracks", playlist_id,
                                               results'.next # 0))
              /\ UNCHANGED << pc, error, failed_calls >>
           \/ /\ ApiFails("next_tracks", playlist_id, results.next)
              /\ UNCHANGED << drain, tracks >>
    /\ UNCHANGED << params, mainLocals, gpLocals, gafLocals, audio_features,
                    averaged, output >>

\* return tracks
GetTracksReturn ==
    /\ pc = "gt_while"
    /\ ~HasNext(results)
    /\ pc' = IF entry = "main" THEN "get_audio_features" ELSE "returned"
    /\ UNCHANGED << params, error, drain, tracks, mainLocals, gpLocals,
                    gafLocals, audio_features, averaged, output, last_call,
                    failed_calls, events >>

\* ------------------------------------------------------- get_audio_features

RECURSIVE FilterNone(_)
\* list(filter(None, ids)): the ids that are not None, in order (filtered by
\* halves).
FilterNone(ids) ==
    IF ids = <<>> THEN <<>>
    ELSE IF Len(ids) = 1 THEN (IF ids[1] # 0 THEN ids ELSE <<>>)
    ELSE LET h == Len(ids) \div 2
         IN  FilterNone(SubSeq(ids, 1, h)) \o FilterNone(SubSeq(ids, h + 1, Len(ids)))

\* track_ids = list(filter(None, [track['track']['id'] for track in tracks]))
TrackIds(trs) == FilterNone([i \in 1..Len(trs) |-> trs[i].track.id])

BatchOverlapping(ids, from) == PySlice(ids, Max(0, from - 1), from + BatchSize)

\* ids = track_ids[start:start+100]
Batch(ids, from) == PySlice(ids, from, from + BatchSize)

\* sp.audio_features(tracks=ids): one entry per id, in the ids' order.
AudioFeaturesOf(ids) == [i \in 1..Len(ids) |-> FeatureOf(ids[i])]

\* Lines 59-62.  The drained pages' record ends here: the listing is consumed.
GetAudioFeaturesStart ==
    /\ pc = "get_audio_features"
    /\ track_ids' = TrackIds(tracks)
    /\ num_tracks_left' = Len(TrackIds(tracks))
    /\ start' = 0
    /\ audio_features' = <<>>
    /\ sent' = <<>>
    /\ pc' = "gaf_while"
    /\ results' = NoPage /\ served' = <<>> /\ fetched' = <<>>
    /\ UNCHANGED << params, error, tracks, mainLocals, gpLocals, averaged,
                    output, last_call, failed_calls, events >>

\* One turn of "while num_tracks_left > 0" (lines 63-67).
GetAudioFeaturesBatch ==
    /\ pc = "gaf_while"
    /\ num_tracks_left > 0
    /\ LET ids == Batch(track_ids, start)
           pl == IF entry = "main" THEN playlists[idx].val ELSE 0
       IN  \/ /\ audio_features' = Extend(audio_features, AudioFeaturesOf(ids))
              /\ num_tracks_left' = num_tracks_left - BatchSize
              /\ start' = start + BatchSize
              /\ sent' = Append(sent, ids)
              /\ last_call' = Call("audio_features", pl, start, TRUE)
              /\ events' = Note(events, Event("features", pl, FALSE))
              /\ UNCHANGED << pc, error, failed_calls, track_ids >>
           \/ /\ ApiFails("audio_features", pl, start)
              /\ UNCHANGED << gafLocals, audio_features >>
    /\ UNCHANGED << params, drain, tracks, mainLocals, gpLocals, averaged,
                    output >>

\* return audio_features
GetAudioFeaturesReturn ==
    /\ pc = "gaf_while"
    /\ ~(num_tracks_left > 0)
    /\ pc' = IF entry = "main" THEN "average" ELSE "returned"
    /\ UNCHANGED << params, error, drain, tracks, mainLocals, gpLocals,
                    gafLocals, audio_features, averaged, output, last_call,
                    failed_calls, events >>

\* --------------------------------------------------------------------- main

\* playlist_audio_features[playlist] = average_audio_features(audio_features)
\* An exception of average_audio_features is caught nowhere.  In main the
\* lists of the playlist just averaged are dropped: they are rebound before
\* they are read again.
Average ==
    /\ pc = "average"
    /\ LET out == average_audio_features(audio_features)
       IN  IF out.raised
           THEN /\ Raise(out.error)
                /\ UNCHANGED << averaged, mainLocals, tracks, gafLocals,
                                audio_features >>
           ELSE /\ averaged' = out.value
                /\ error' = error
                /\ IF entry = "main"
                   THEN /\ playlist_audio_features' =
                              DictSet(playlist_audio_features,
                                      playlists[idx].key, out.value)
                        /\ idx' = idx + 1
                        /\ pc' = "main_for"
                        /\ tracks' = <<>> /\ track_ids' = <<>> /\ sent' = <<>>
                        /\ start' = 0 /\ num_tracks_left' = 0
                        /\ audio_features' = <<>>
                        /\ UNCHANGED playlists
                   ELSE /\ pc' = "returned"
                        /\ UNCHANGED << mainLocals, tracks, gafLocals,
                                        audio_features >>
    /\ events' = Note(events, Event("average",
                                     IF entry = "main" THEN playlists[idx].val
                                     ELSE 0, FALSE))
    /\ UNCHANGED << params, drain, gpLocals, output, last_call, failed_calls >>

\* print_rankings(playlist_audio_features), once the for loop is exhausted.
PrintRankings ==
    /\ \/ pc = "main_for" /\ ~(idx <= Len(playlists))
       \/ pc = "print_rankings"
    /\ report' = Rankings(playlist_audio_features, top_amount)
    /\ printed' = printed + 1
    /\ pc' = IF entry = "main" THEN "done" ELSE "returned"
    /\ events' = Append(events, Event("report", 0, FALSE))
    /\ UNCHANGED << params, error, drain, tracks, mainLocals, gpLocals,
                    gafLocals, audio_features, averaged, last_call,
                    failed_calls >>

\* ----------------------------------------------------------- specifications

Blank ==
    /\ error = NoError
    /\ results = NoPage /\ served = <<>> /\ fetched = <<>>
    /\ gp_playlists = <<>>
    /\ playlists = <<>> /\ idx = 1
    /\ tracks = <<>>
    /\ track_ids = <<>> /\ start = 0 /\ num_tracks_left = 0 /\ sent = <<>>
    /\ audio_features = <<>>
    /\ averaged = NoVector
    /\ playlist_audio_features = <<>>
    /\ report = <<>> /\ printed = 0
    /\ last_call = NoCall /\ failed_calls = 0
    /\ events = <<>>

\* main(): get_playlists(sp=sp) and print_rankings(...) take their defaults.
Init ==
    /\ entry = "main" /\ pc = "get_playlists"
    /\ collab_only = FALSE
    /\ top_amount = DefaultTopAmount
    /\ Blank

Next ==
    \/ GetPlaylistsFirst \/ GetPlaylistsNext \/ GetPlaylistsBuild
    \/ GetTracksFirst \/ GetTracksNext \/ GetTracksReturn
    \/ GetAudioFeaturesStart \/ GetAudioFeaturesBatch \/ GetAudioFeaturesReturn
    \/ Average
    \/ PrintRankings

Spec == Init /\ [][Next]_vars

\* get_playlists(sp, collab_only) entered alone, with either flag.
InitPlaylists ==
    /\ entry = "get_playlists" /\ pc = "get_playlists"
    /\ collab_only \in BOOLEAN
    /\ top_amount = DefaultTopAmount
    /\ Blank

\* get_playlist_tracks(sp, playlist_id) entered alone: the argument is held
\* as the one entry of playlists.
InitTracks ==
    /\ entry = "get_playlist_tracks" /\ pc = "main_for"
    /\ collab_only = FALSE
    /\ top_amount = DefaultTopAmount
    /\ error = NoError
    /\ results = NoPage /\ served = <<>> /\ fetched = <<>>
    /\ gp_playlists = <<>>
    /\ playlists = << [key |-> "A", val |-> 1] >> /\ idx = 1
    /\ tracks = <<>>
    /\ track_ids = <<>> /\ start = 0 /\ num_tracks_left = 0 /\ sent = <<>>
    /\ audio_features = <<>>
    /\ averaged = NoVector
    /\ playlist_audio_features = <<>>
    /\ report = <<>> /\ printed = 0
    /\ last_call = NoCall /\ failed_calls = 0
    /\ events = <<>>

InitListing == InitPlaylists \/ InitTracks

NextListing ==
    \/ GetPlaylistsFirst \/ GetPlaylistsNext \/ GetPlaylistsBuild
    \/ GetTracksFirst \/ GetTracksNext \/ GetTracksReturn

SpecListing == InitListing /\ [][NextListing]_vars

\* A track list of n references: every gap-th one has no id (gap 0: none),
\* the others carry their position as id.
TrackList(n, gap) ==
    [i \in 1..n |-> TrackRef(IF gap > 0 /\ i % gap = 0 THEN 0 ELSE i)]
NoIdGaps == {0, 1, 2, 7}
TrackInputs == {TrackList(n, gap) : n \in 0..MaxTracks, gap \in NoIdGaps}

\* get_audio_features(sp, tracks) entered alone.
InitFeatures ==
    /\ entry = "get_audio_features" /\ pc = "get_audio_features"
    /\ collab_only = FALSE
    /\ top_amount = DefaultTopAmount
    /\ error = NoError
    /\ results = NoPage /\ served = <<>> /\ fetched = <<>>
    /\ gp_playlists = <<>>
    /\ playlists = <<>> /\ idx = 1
    /\ tracks \in TrackInputs
    /\ track_ids = <<>> /\ start = 0 /\ num_tracks_left = 0 /\ sent = <<>>
    /\ audio_features = <<>>
    /\ averaged = NoVector
    /\ playlist_audio_features = <<>>
    /\ report = <<>> /\ printed = 0
    /\ last_call = NoCall /\ failed_calls = 0
    /\ events = <<>>

NextFeatures ==
    GetAudioFeaturesStart \/ GetAudioFeaturesBatch \/ GetAudioFeaturesReturn

SpecFeatures == InitFeatures /\ [][NextFeatures]_vars

FeatureInputs == {VecOf(s) : s \in 0..MaxSeed} \cup {NoneFeature, LackingOf(1)}

\* average_audio_features(audio_features) entered alone.
InitAverage ==
    /\ entry = "average_audio_features" /\ pc = "average"
    /\ collab_only = FALSE
    /\ top_amount = DefaultTopAmount
    /\ error = NoError
    /\ results = NoPage /\ served = <<>> /\ fetched = <<>>
    /\ gp_playlists = <<>>
    /\ playlists = <<>> /\ idx = 1
    /\ tracks = <<>>
    /\ track_ids = <<>> /\ start = 0 /\ num_tracks_left = 0 /\ sent = <<>>
    /\ audio_features \in SeqsUpTo(FeatureInputs, MaxVecs)
    /\ averaged = NoVector
    /\ playlist_audio_features = <<>>
    /\ report = <<>> /\ printed = 0
    /\ last_call = NoCall /\ failed_calls = 0
    /\ events = <<>>

NextAverage == Average

SpecAverage == InitAverage /\ [][NextAverage]_vars

RankNames == {NamePool[i] : i \in 1..MaxRankPlaylists}
\* The averaged vectors print_rankings is handed: averages of one track.
RankVectors == {average_audio_features(<<VecOf(s)>>).value : s \in 0..MaxRankSeed}
\* Dicts of up to MaxRankPlaylists playlists, in every insertion order.
RankInputs ==
    UNION { { [i \in 1..n |-> [key |-> ks[i], val |-> vs[i]]] :
                ks \in {f \in [1..n -> RankNames] :
                           \A i, j \in 1..n : f[i] = f[j] => i = j},
                vs \in [1..n -> RankVectors] } : n \in 0..MaxRankPlaylists }

\* print_rankings(playlists_audio_features, top_amount) entered alone.
InitRank ==
    /\ entry = "print_rankings" /\ pc = "print_rankings"
    /\ collab_only = FALSE
    /\ top_amount \in 0..MaxTop
    /\ error = NoError
    /\ results = NoPage /\ served = <<>> /\ fetched = <<>>
    /\ gp_playlists = <<>>
    /\ playlists = <<>> /\ idx = 1
    /\ tracks = <<>>
    /\ track_ids = <<>> /\ start = 0 /\ num_tracks_left = 0 /\ sent = <<>>
    /\ audio_features = <<>>
    /\ averaged = NoVector
    /\ playlist_audio_features \in RankInputs
    /\ report = <<>> /\ printed = 0
    /\ last_call = NoCall /\ failed_calls = 0
    /\ events = <<>>

NextRank == PrintRankings

SpecRank == InitRank /\ [][NextRank]_vars

\* ------------------------------------------------------------------- claims

PageItems(pages) == Flatten([i \in 1..Len(pages) |-> pages[i].items])

\* The list the drain in progress (or just returned) has built.
Drained ==
    IF pc = "gp_while" \/ entry = "get_playlists" THEN gp_playlists ELSE tracks

DrainDone ==
    pc = "returned" /\ entry \in {"get_playlists", "get_playlist_tracks"}

\* C3: a drain (in get_playlists and in get_playlist_tracks) holds the
\* concatenation of the pages answered so far, in the order answered; it asks
\* for the first page once and then only for the cursor the page before
\* named, so no page twice and never past a page that names no next; and it
\* returns exactly when the last page names no next: after k pages, k - 1
\* "next" fetches.
C3_DrainConcatenatesPagesOnce ==
    (pc \in {"gp_while", "gt_while"} \/ DrainDone) =>
        /\ Len(served) >= 1
        /\ Drained = PageItems(served)
        /\ Len(fetched) = Len(served)
        /\ fetched[1] = 1
        /\ \A i \in 1..(Len(served) - 1) :
              /\ served[i].next # 0
              /\ fetched[i + 1] = served[i].next
        /\ \A i, j \in 1..Len(fetched) : fetched[i] = fetched[j] => i = j
        /\ DrainDone => served[Len(served)].next = 0

\* C3's case: get_playlist_tracks returns a list of three non-empty pages.
C3_Witness ==
    /\ DrainDone
    /\ entry = "get_playlist_tracks"
    /\ Len(served) = 3
    /\ \A i \in 1..3 : served[i].items # <<>>
    /\ served[1].items # served[2].items
    /\ Len(tracks) > BatchSize

\* The fetched playlists that pass the filter, as positions of gp_playlists.
Retained ==
    {i \in 1..Len(gp_playlists) :
        collab_only => gp_playlists[i].collaborative}

GetPlaylistsDone == pc = "returned" /\ entry = "get_playlists"

\* C6: with collab_only the mapping get_playlists returns has exactly the
\* names of the playlists flagged collaborative, each with the id of such a
\* playlist of that name, and without it the names of all fetched playlists;
\* when the retained names are distinct, its entries are exactly the retained
\* (name, id) pairs.
C6_CollaborativeFilter ==
    GetPlaylistsDone =>
        /\ {playlists[k].key : k \in 1..Len(playlists)}
              = {gp_playlists[i].name : i \in Retained}
        /\ \A k \in 1..Len(playlists) :
              \E i \in Retained : /\ gp_playlists[i].name = playlists[k].key
                                  /\ gp_playlists[i].id = playlists[k].val
        /\ (\A i, j \in Retained :
               gp_playlists[i].name = gp_playlists[j].name => i = j)
           => /\ Len(playlists) = Cardinality(Retained)
              /\ {<<playlists[k].key, playlists[k].val>> : k \in 1..Len(playlists)}
                   = {<<gp_playlists[i].name, gp_playlists[i].id>> : i \in Retained}
        /\ ~collab_only => Retained = 1..Len(gp_playlists)

\* C6's case: [A collaborative, B not, C collaborative] with the filter on
\* gives {A: 1, C: 3}.
C6_Witness ==
    /\ GetPlaylistsDone
    /\ collab_only
    /\ Len(gp_playlists) = 3
    /\ [i \in 1..3 |-> gp_playlists[i].name] = <<"A", "B", "C">>
    /\ [i \in 1..3 |-> gp_playlists[i].collaborative] = <<TRUE, FALSE, TRUE>>
    /\ playlists = << [key |-> "A", val |-> 1], [key |-> "C", val |-> 3] >>

\* C9: the mapping has one entry per distinct retained name, and the entry of
\* a name carries the id of the last retained playlist of that name.
C9_LastNameWins ==
    GetPlaylistsDone =>
        /\ \A k, l \in 1..Len(playlists) :
              playlists[k].key = playlists[l].key => k = l
        /\ Len(playlists) = Cardinality({gp_playlists[i].name : i \in Retained})
        /\ \A i \in Retained :
              /\ DictHas(playlists, gp_playlists[i].name)
              /\ LET last == CHOOSE j \in Retained :
                        /\ gp_playlists[j].name = gp_playlists[i].name
                        /\ \A l \in Retained :
                              gp_playlists[l].name = gp_playlists[i].name => l <= j
                 IN  DictGet(playlists, gp_playlists[i].name) = gp_playlists[last].id

\* C9's case: two retained playlists share a name, and a third one does not.
C9_Witness ==
    /\ GetPlaylistsDone
    /\ Len(gp_playlists) = 3
    /\ Retained = {1, 2, 3}
    /\ gp_playlists[1].name = gp_playlists[3].name
    /\ gp_playlists[2].name # gp_playlists[1].name
    /\ playlists = << [key |-> gp_playlists[1].name, val |-> 3],
                      [key |-> gp_playlists[2].name, val |-> 2] >>

\* The ids of the track references that have one.
RetainedIds == {tracks[i].track.id : i \in 1..Len(tracks)} \ {0}

GetAudioFeaturesDone == pc = "returned" /\ entry = "get_audio_features"

\* C4: get_audio_features never sends an empty list nor one of more than 100
\* ids; when it returns, it has made ceil(n / 100) calls for the n references
\* that carry an id (none for n = 0), the lists sent hold exactly the retained
\* ids, each once and in their original order (the references handed in carry
\* increasing ids), and the result is the calls' answers in the order of the
\* calls.
C4_BatchesOfAtMostHundred ==
    /\ entry = "get_audio_features" =>
          \A b \in 1..Len(sent) : Len(sent[b]) >= 1 /\ Len(sent[b]) <= 100
    /\ GetAudioFeaturesDone =>
          LET n == Cardinality(RetainedIds)
              all == Flatten(sent)
          IN  /\ Len(sent) = (n + 99) \div 100
              /\ Len(all) = n
              /\ {all[k] : k \in 1..n} = RetainedIds
              /\ \A k \in 1..(n - 1) : all[k] < all[k + 1]
              /\ audio_features =
                    Flatten([b \in 1..Len(sent) |->
                                [k \in 1..Len(sent[b]) |-> FeatureOf(sent[b][k])]])
              /\ Len(audio_features) = n

\* C4's case: 250 references, all with an id, go out as 100, 100 and 50.
C4_Witness ==
    /\ GetAudioFeaturesDone
    /\ Len(tracks) = 250
    /\ Cardinality(RetainedIds) = 250
    /\ [b \in 1..Len(sent) |-> Len(sent[b])] = <<100, 100, 50>>

RankDone == pc = "returned" /\ entry = "print_rankings"

\* The place of a playlist in the dict handed to print_rankings.
PlaceOf(name) ==
    CHOOSE i \in 1..Len(playlist_audio_features) :
        playlist_audio_features[i].key = name

\* Playlist i stands before playlist j in the ranking by descriptor c: a
\* higher value, or the same value and an earlier place in the dict.
Before(i, j, c) ==
    LET vi == playlist_audio_features[i].val[c]
        vj == playlist_audio_features[j].val[c]
    IN  vi > vj \/ (vi = vj /\ i < j)

\* C5: print_rankings prints one block per descriptor; its lines are
\* min(top_amount, number of playlists) playlists with their value of the
\* descriptor, in descending order of the value, equal values in the order
\* of the dict, and no playlist left out stands before a printed one.
C5_RankedDescendingStableTopN ==
    RankDone =>
        /\ Len(report) = 9
        /\ \A k \in 1..Len(report) :
              LET c == Categories[k]
                  lines == report[k].lines
                  n == Len(playlist_audio_features)
              IN  /\ report[k].category = c
                  /\ Len(lines) = Min(top_amount, n)
                  /\ \A i \in 1..Len(lines) :
                        /\ DictHas(playlist_audio_features, lines[i].name)
                        /\ lines[i].value =
                              DictGet(playlist_audio_features, lines[i].name)[c]
                  /\ \A i, j \in 1..Len(lines) :
                        i < j => Before(PlaceOf(lines[i].name),
                                        PlaceOf(lines[j].name), c)
                  /\ \A p \in 1..n :
                        (\A i \in 1..Len(lines) :
                            lines[i].name # playlist_audio_features[p].key)
                        => \A i \in 1..Len(lines) :
                              Before(PlaceOf(lines[i].name), p, c)

\* C5's case: three playlists, the first below the two others, which tie,
\* and the top 2 asked for: the two that tie are printed in the dict's order.
C5_Witness ==
    /\ RankDone
    /\ top_amount = 2
    /\ Len(playlist_audio_features) = 3
    /\ \E k \in 1..Len(report) :
          LET c == Categories[k]
          IN  /\ playlist_audio_features[1].val[c] < playlist_audio_features[2].val[c]
              /\ playlist_audio_features[2].val[c] = playlist_audio_features[3].val[c]
              /\ [i \in 1..Len(report[k].lines) |-> report[k].lines[i].name]
                    = << playlist_audio_features[2].key,
                         playlist_audio_features[3].key >>

RECURSIVE TotalOf(_, _, _)
\* The sum of descriptor c over the first i feature records.
TotalOf(afs, c, i) ==
    IF i = 0 THEN 0 ELSE TotalOf(afs, c, i - 1) + afs[i].fields[c]

WellFormed(afs) ==
    \A i \in 1..Len(afs) :
        ~afs[i].isNone /\ CategorySet \subseteq DOMAIN afs[i].fields

\* One unit of an averaged value, in units of a raw value.
UnitRatio == Pow10(RawDigits - Digits)

\* C7: for a non-empty list of feature vectors average_audio_features
\* returns a dict of exactly the nine descriptors, each the hundredth nearest
\* to the sum of the descriptor over the list divided by its length.
C7_AverageIsRoundedMean ==
    (entry = "average_audio_features" /\ pc # "average"
     /\ audio_features # <<>> /\ WellFormed(audio_features)) =>
        /\ pc = "returned"
        /\ error = NoError
        /\ DOMAIN averaged = CategorySet
        /\ Cardinality(DOMAIN averaged) = 9
        /\ \A c \in CategorySet :
              LET n == Len(audio_features)
                  total == TotalOf(audio_features, c, n)
              IN  2 * Abs(total - averaged[c] * n * UnitRatio) <= n * UnitRatio

\* C7's case: three vectors whose mean of tempo is no whole hundredth and
\* rounds up, and whose mean of loudness is negative.
C7_Witness ==
    /\ entry = "average_audio_features" /\ pc = "returned"
    /\ Len(audio_features) = 3
    /\ WellFormed(audio_features)
    /\ LET total == TotalOf(audio_features, "tempo", 3)
       IN  averaged["tempo"] * 3 * UnitRatio > total
    /\ averaged["loudness"] < 0

AveragingErrors == {"ZeroDivisionError", "TypeError", "KeyError"}

\* C1: averaging an empty list of feature vectors gives a skip signal, and
\* never a division by zero.
C1_EmptyAverageIsSkipped ==
    (entry = "average_audio_features" /\ pc # "average" /\ audio_features = <<>>)
        => error.type # "ZeroDivisionError"

\* C2: in a whole run a playlist whose averaging fails does not end the run:
\* the run goes on to the report, which holds exactly the playlists whose
\* averaging succeeded.
C2_RunSurvivesFailedAveraging ==
    entry = "main" =>
        /\ pc = "aborted" => error.type \notin AveragingErrors
        /\ pc = "done" =>
              /\ printed = 1
              /\ \A k \in 1..Len(report) :
                    Len(report[k].lines) = Len(playlist_audio_features)

\* What may follow an entry of events in a run.
Follows(e, f) ==
    CASE e.op = "playlists" -> f.op \in {"tracks", "report"}
      [] e.op = "tracks"    -> f.op \in {"features", "average"} /\ f.pl = e.pl
      [] e.op = "features"  -> f.op = "average" /\ f.pl = e.pl
      [] e.op = "average"   -> f.op \in {"tracks", "report"} /\ f.pl # e.pl
      [] OTHER              -> FALSE

CountOf(op, upto) == Cardinality({i \in 1..upto : events[i].op = op})

\* The order of a run: the playlist listing first and drained before anything
\* else; per playlist, in the order of the dict, its track listing drained,
\* then its feature fetches, then its averaging, and only then the next
\* playlist; the report last, after every playlist.
RunInOrder ==
    /\ events # <<>> => events[1].op = "playlists"
    /\ \A i \in 1..(Len(events) - 1) :
          ~events[i].open /\ Follows(events[i], events[i + 1])
    /\ \A i \in 1..Len(events) :
          events[i].op = "tracks" =>
              LET j == CountOf("average", i) + 1
              IN  j <= Len(playlists) /\ events[i].pl = playlists[j].val
    /\ \A i \in 1..Len(events) :
          events[i].op = "report" =>
              /\ i = Len(events)
              /\ CountOf("average", i) = Len(playlists)
              /\ DictKeys(playlist_audio_features) = DictKeys(playlists)
    /\ printed = CountOf("report", Len(events))

\* C10 as amended: a run is in order, prints the report at most once, has
\* printed it once when it completes, and has printed none when an exception
\* ended it.
C10_SequentialReportAtMostOnce ==
    entry = "main" =>
        /\ RunInOrder
        /\ printed <= 1
        /\ pc = "done" => printed = 1
        /\ pc = "aborted" => printed = 0

\* C10's case: a completed run over two playlists, each with a feature fetch.
C10_Witness ==
    /\ entry = "main" /\ pc = "done"
    /\ Len(playlists) = 2
    /\ [i \in 1..Len(events) |-> events[i].op] =
          << "playlists", "tracks", "features", "average",
             "tracks", "features", "average", "report" >>
    /\ printed = 1

\* C10 as stated: the run is in order and every run prints the report
\* exactly once.
C10_ReportExactlyOnceInEveryRun ==
    entry = "main" =>
        /\ RunInOrder
        /\ pc \in {"done", "aborted"} => printed = 1

\* C8: an external call that raises ends the run at once: the exception is
\* the one the call raised, no call is issued after it (so at most one call
\* ever fails, and the failed one is issued once), and nothing is printed.
C8_ApiErrorAbortsWithoutRetry ==
    entry = "main" =>
        /\ failed_calls <= 1
        /\ failed_calls = 1 =>
              /\ pc = "aborted"
              /\ ~last_call.ok
              /\ error = ApiError(last_call)
              /\ printed = 0 /\ report = <<>>
        /\ error.type = "SpotifyException" => failed_calls = 1
        /\ ~last_call.ok => failed_calls = 1

\* C8's case: the feature fetch of the second playlist raises.
C8_Witness ==
    /\ entry = "main" /\ pc = "aborted"
    /\ failed_calls = 1
    /\ last_call.op = "audio_features"
    /\ idx = 2
    /\ Len(playlist_audio_features) = 1

====
